---- MODULE Spec2Model ----
(***************************************************************************)
(* A model of src/agents/tools/voice-tool.ts: the VoiceManager (voice      *)
(* connections per guild, one audio player per guild, the per-user         *)
(* utterance capture of startListening / handleSpeakingStart and the       *)
(* asynchronous processAudio that transcribes a finished utterance).       *)
(*                                                                         *)
(* The program is single-threaded and event-driven: every action below is  *)
(* one run-to-completion step, that is a call up to its first await, or    *)
(* the continuation after an await, or one event handler.                  *)
(*                                                                         *)
(* What @discordjs/voice does is taken from the library's behaviour:       *)
(*  - getVoiceConnection(guild) returns the tracked connection;            *)
(*    connection.destroy() untracks it and destroys the receive streams    *)
(*    of its receiver (they close without 'end' and without 'error');      *)
(*  - connection.rejoin() keeps a Ready connection Ready and puts any      *)
(*    other live connection back to Signalling;                            *)
(*  - receiver.subscribe(user) returns the user's open stream when there   *)
(*    is one, so a second decoder is piped from the same stream;           *)
(*  - a player with no live subscriber is auto-paused                      *)
(*    (NoSubscriberBehavior.Pause).                                        *)
(***************************************************************************)
EXTENDS Integers, Sequences, FiniteSets

(* ------------------------------------------------------------------ *)
(* Bounds and inputs                                                   *)
(* ------------------------------------------------------------------ *)

Guilds == {"g1", "g2"}
Users == {"u1", "u2"}
\* the voice channels of the guild
VoiceChannels(g) == IF g = "g1" THEN {"c1", "c2"} ELSE {"c3"}
\* a channel id that does not resolve to a voice channel
TextChannel == "text"
JoinChannels(g) == VoiceChannels(g) \cup {TextChannel}

\* decoders alive at a time, over all users
MaxDecoders == 2
\* processAudio calls in flight
MaxFinalizing == 1
\* play promises pending per guild
MaxPlays == 2
\* bytes of a PCM buffer
MaxPcmLen == 3

\* options.silenceThreshold ?? 1500
DefaultSilenceThreshold == 1500
\* options.minSpeechDuration ?? 500
DefaultMinSpeechDuration == 500

\* time passes in steps of these many milliseconds
Delays == {500}

Unset == "unset"

\* VoiceListenerOptions values passed to startListening
Opt(cb, lang, key, sil, min) ==
    [onTranscription |-> cb, language |-> lang, openaiApiKey |-> key,
     silenceThreshold |-> sil, minSpeechDuration |-> min]

NoOptions == Opt(Unset, Unset, Unset, 0, 0)

\* the options a caller passes for a guild: the callback is the closure the
\* caller made for that guild, the thresholds are omitted or given
OptionsFor(g) ==
    IF g = "g1" THEN { Opt("cb_g1", "ja", "key_g1", 500, 1000) }
    ELSE { Opt("cb_g2", "en", "key_g2", 0, 0) }

OptionSet == UNION {OptionsFor(g) : g \in Guilds}

\* a threshold of 0 stands for an omitted option
Thresholds(opt) ==
    [silenceThreshold |-> IF opt.silenceThreshold = 0
                          THEN DefaultSilenceThreshold ELSE opt.silenceThreshold,
     minSpeechDuration |-> IF opt.minSpeechDuration = 0
                           THEN DefaultMinSpeechDuration ELSE opt.minSpeechDuration]

NoHook == [silenceThreshold |-> 0, minSpeechDuration |-> 0]

Files == {"a.mp3", "b.mp3", "missing.mp3"}
ExistingFiles == {"a.mp3", "b.mp3"}

VARIABLES
    conn,            \* guild -> the tracked voice connection
    joining,         \* guild -> the channel of the join that awaits entersState on the
                     \* tracked connection, or Unset
    staleJoins,      \* guild -> some join awaits entersState on a destroyed connection
    players,         \* this.players
    plays,           \* guild -> the files of the play calls that await the guild's
                     \* player, in the order of the calls
    listenerOptions, \* this.listenerOptions
    activeListeners, \* this.activeListeners
    pendingListens,  \* guild -> startListening calls awaiting mkdir
    opus,            \* guild -> user -> the receiver's stream of the user
    captures,        \* guild -> user -> the decoders piped from that stream
    finalizing,      \* processAudio calls in flight
    last,            \* the last operation or event and what it returned
    voiceManager,    \* the module's voiceManager: "unset", or the state of its client
    activeVoiceGuildId \* the module's activeVoiceGuildId, or Unset

vars == <<conn, joining, staleJoins, players, plays, listenerOptions,
          activeListeners, pendingListens, opus, captures, finalizing, last,
          voiceManager, activeVoiceGuildId>>

NoConn == [status |-> "None", channelId |-> Unset, hook |-> NoHook]
NoPlayer == [exists |-> FALSE, status |-> "Idle", resource |-> Unset, subscribed |-> FALSE]
NoSet == [present |-> FALSE, users |-> {}]
NoStream == [open |-> FALSE, silence |-> 0, silenceThreshold |-> 0]

\* what an operation returned, or what an event handler did
Ev(op, g) ==
    [op |-> op, guild |-> g, user |-> Unset, result |-> "ok",
     connected |-> FALSE, channelId |-> Unset, listening |-> FALSE,
     cb |-> Unset, language |-> Unset, key |-> Unset,
     text |-> Unset]

\* an event that returns nothing to a caller
Quiet == Ev("event", Unset)

Init ==
    /\ conn = [g \in Guilds |-> NoConn]
    /\ joining = [g \in Guilds |-> Unset]
    /\ staleJoins = [g \in Guilds |-> FALSE]
    /\ players = [g \in Guilds |-> NoPlayer]
    /\ plays = [g \in Guilds |-> <<>>]
    /\ listenerOptions = NoOptions
    /\ activeListeners = [g \in Guilds |-> NoSet]
    /\ pendingListens = [g \in Guilds |-> {}]
    /\ opus = [g \in Guilds |-> [u \in Users |-> NoStream]]
    /\ captures = [g \in Guilds |-> [u \in Users |-> <<>>]]
    /\ finalizing = <<>>
    /\ last = Ev("init", Unset)
    /\ voiceManager = "unset"
    /\ activeVoiceGuildId = Unset

(* ------------------------------------------------------------------ *)
(* Queries                                                             *)
(* ------------------------------------------------------------------ *)

\* getVoiceConnection(guildId) !== undefined
HasConnection(g) == conn[g].status # "None"

\* isConnected, were it to ask for a Ready connection
isConnectedWhenReady(g) == conn[g].status = "Ready"

\* VoiceManager.isConnected
isConnected(g) == HasConnection(g) /\ conn[g].status # "Destroyed"

\* VoiceManager.getChannelId
getChannelId(g) ==
    IF ~HasConnection(g) \/ conn[g].status = "Destroyed" THEN Unset ELSE conn[g].channelId

\* VoiceManager.isListening
isListening(g) == listenerOptions # NoOptions /\ activeListeners[g].present

(* ------------------------------------------------------------------ *)
(* Connections: join, leave and what the voice library reports          *)
(* ------------------------------------------------------------------ *)

\* VoiceConnection.rejoin: a Ready connection stays Ready, any other goes to Signalling
RejoinStatus(status) == IF status = "Ready" THEN "Ready" ELSE "Signalling"

\* a player whose connection is destroyed loses its subscription and is auto-paused
Unsubscribed(p) ==
    IF ~p.exists THEN p
    ELSE [p EXCEPT !.subscribed = FALSE,
                   !.status = IF p.status = "Playing" THEN "AutoPaused" ELSE p.status]

MarkStale(q) == {[e EXCEPT !.stale = TRUE] : e \in q}

\* connection.destroy(): the connection is untracked, its receive streams are
\* destroyed (the decoders piped from them get no 'end' and no 'error'), and
\* what still waits on it waits on a dead connection
DestroyConnection(g) ==
    /\ conn' = [conn EXCEPT ![g] = NoConn]
    /\ opus' = [opus EXCEPT ![g] = [u \in Users |-> NoStream]]
    /\ captures' = [captures EXCEPT ![g] = [u \in Users |-> <<>>]]
    /\ pendingListens' = [pendingListens EXCEPT ![g] = MarkStale(@)]

\* join, when the channel does not resolve to a voice channel
JoinNotVoiceChannel(g, ch) ==
    /\ ch = TextChannel
    /\ last' = [Ev("join", g) EXCEPT !.result = "ConnectionError", !.channelId = ch]
    /\ UNCHANGED <<conn, joining, staleJoins, players, plays, listenerOptions,
                   activeListeners, pendingListens, opus, captures, finalizing>>

\* the status a rejoined connection is returned with
JoinRejoinStatus(status) == RejoinStatus(status)

\* join, were it to replace a live connection by a new one
JoinRecreate(g, ch) ==
    /\ ch \in VoiceChannels(g)
    /\ HasConnection(g) /\ conn[g].status # "Destroyed"
    /\ conn' = [conn EXCEPT ![g] = [status |-> "Signalling", channelId |-> ch, hook |-> NoHook]]
    /\ joining' = [joining EXCEPT ![g] = ch]
    /\ staleJoins' = [staleJoins EXCEPT ![g] = @ \/ joining[g] # Unset]
    /\ last' = [Ev("join", g) EXCEPT !.result = "pending", !.channelId = ch]
    /\ UNCHANGED <<players, plays, listenerOptions,
                   activeListeners, pendingListens, opus, captures, finalizing>>

\* join, when a live connection exists: rejoin it and return it at once
JoinRejoin(g, ch) ==
    /\ ch \in VoiceChannels(g)
    /\ HasConnection(g) /\ conn[g].status # "Destroyed"
    /\ conn' = [conn EXCEPT ![g].status = JoinRejoinStatus(@), ![g].channelId = ch]
    /\ last' = [Ev("join", g) EXCEPT !.channelId = ch]
    /\ UNCHANGED <<joining, staleJoins, players, plays, listenerOptions,
                   activeListeners, pendingListens, opus, captures, finalizing>>

\* join, when there is no live connection: joinVoiceChannel, then await entersState
JoinCreate(g, ch) ==
    /\ ch \in VoiceChannels(g)
    /\ ~(HasConnection(g) /\ conn[g].status # "Destroyed")
    /\ conn' = [conn EXCEPT ![g] = [status |-> "Signalling", channelId |-> ch, hook |-> NoHook]]
    /\ joining' = [joining EXCEPT ![g] = ch]
    /\ last' = [Ev("join", g) EXCEPT !.result = "pending", !.channelId = ch]
    /\ UNCHANGED <<staleJoins, players, plays, listenerOptions,
                   activeListeners, pendingListens, opus, captures, finalizing>>

\* VoiceManager.join
Join(g, ch) == JoinNotVoiceChannel(g, ch) \/ JoinRejoin(g, ch) \/ JoinCreate(g, ch)

\* the library reports the connection Ready; a join awaiting it returns the connection
ConnReady(g) ==
    /\ conn[g].status = "Signalling"
    /\ conn' = [conn EXCEPT ![g].status = "Ready"]
    /\ joining' = [joining EXCEPT ![g] = Unset]
    /\ last' = IF joining[g] # Unset
               THEN [Ev("join", g) EXCEPT !.channelId = joining[g]]
               ELSE Quiet
    /\ UNCHANGED <<staleJoins, players, plays, listenerOptions,
                   activeListeners, pendingListens, opus, captures, finalizing>>

\* entersState times out: the join destroys the connection it waits on and fails
JoinTimeout(g) ==
    /\ joining[g] # Unset
    /\ conn[g].status # "Ready"
    /\ DestroyConnection(g)
    /\ joining' = [joining EXCEPT ![g] = Unset]
    /\ players' = [players EXCEPT ![g] = Unsubscribed(@)]
    /\ last' = [Ev("join", g) EXCEPT !.result = "ConnectionError"]
    /\ UNCHANGED <<staleJoins, plays, listenerOptions, activeListeners,
                   finalizing>>

\* entersState times out on a connection that was destroyed meanwhile
StaleJoinTimeout(g) ==
    /\ staleJoins[g]
    /\ staleJoins' = [staleJoins EXCEPT ![g] = FALSE]
    /\ last' = [Ev("join", g) EXCEPT !.result = "ConnectionError"]
    /\ UNCHANGED <<conn, joining, players, plays, listenerOptions,
                   activeListeners, pendingListens, opus, captures, finalizing>>

\* the library reports the connection lost (network, moved or kicked)
ConnDisconnected(g) ==
    /\ conn[g].status = "Ready"
    /\ conn' = [conn EXCEPT ![g].status = "Disconnected"]
    /\ last' = Quiet
    /\ UNCHANGED <<joining, staleJoins, players, plays, listenerOptions,
                   activeListeners, pendingListens, opus, captures, finalizing>>

\* VoiceManager.leave
Leave(g) ==
    /\ players' = [players EXCEPT ![g] = NoPlayer]
    /\ plays' = [plays EXCEPT ![g] = IF players[g].exists THEN <<>> ELSE @]
    /\ IF HasConnection(g)
       THEN /\ DestroyConnection(g)
            /\ joining' = [joining EXCEPT ![g] = Unset]
            /\ staleJoins' = [staleJoins EXCEPT ![g] = @ \/ joining[g] # Unset]
       ELSE UNCHANGED <<conn, opus, captures, pendingListens, joining, staleJoins>>
    /\ last' = Ev("leave", g)
    /\ UNCHANGED <<listenerOptions, activeListeners, finalizing>>

\* VoiceManager.destroy: leave for every guild that has a player, then
\* client.destroy(), which, depending on the discord.js in use, destroys the
\* voice connections that remain (torn) or leaves them alone
Destroy(torn) ==
    LET gone == {g \in Guilds : HasConnection(g) /\ (players[g].exists \/ torn)} IN
    /\ players' = [g \in Guilds |-> NoPlayer]
    /\ plays' = [g \in Guilds |-> <<>>]
    /\ conn' = [g \in Guilds |-> IF g \in gone THEN NoConn ELSE conn[g]]
    /\ opus' = [g \in Guilds |->
                  IF g \in gone THEN [u \in Users |-> NoStream] ELSE opus[g]]
    /\ captures' = [g \in Guilds |->
                      IF g \in gone THEN [u \in Users |-> <<>>] ELSE captures[g]]
    /\ pendingListens' = [g \in Guilds |->
                            IF g \in gone THEN MarkStale(pendingListens[g])
                            ELSE pendingListens[g]]
    /\ joining' = [g \in Guilds |-> IF g \in gone THEN Unset ELSE joining[g]]
    /\ staleJoins' = [g \in Guilds |->
                        IF g \in gone THEN staleJoins[g] \/ joining[g] # Unset
                        ELSE staleJoins[g]]
    /\ last' = Ev("destroy", Unset)
    /\ UNCHANGED <<listenerOptions, activeListeners, finalizing>>

\* getActiveVoiceGuildIds: the guilds of the players map that are connected
getActiveVoiceGuildIds == {g \in Guilds : players[g].exists /\ isConnected(g)}

\* the status action of the command surface
Status(g) ==
    /\ last' = [Ev("status", g) EXCEPT !.connected = isConnected(g),
                                       !.channelId = getChannelId(g),
                                       !.listening = isListening(g)]
    /\ UNCHANGED <<conn, joining, staleJoins, players, plays, listenerOptions,
                   activeListeners, pendingListens, opus, captures, finalizing>>

(* ------------------------------------------------------------------ *)
(* Listening: startListening, handleSpeakingStart and the decoders      *)
(* ------------------------------------------------------------------ *)

RemoveAt(q, i) == [j \in 1..(Len(q) - 1) |-> IF j < i THEN q[j] ELSE q[j + 1]]

Min2(a, b) == IF a < b THEN a ELSE b

\* startListening without a connection throws
StartListeningNotConnected(g) ==
    /\ ~HasConnection(g)
    /\ last' = [Ev("listen", g) EXCEPT !.result = "NotConnected"]
    /\ UNCHANGED <<conn, joining, staleJoins, players, plays, listenerOptions,
                   activeListeners, pendingListens, opus, captures, finalizing>>

\* the options startListening stores in this.listenerOptions
StoredOptions(g, opt) == opt

\* startListening up to its await of mkdir
StartListeningBegin(g, opt) ==
    /\ HasConnection(g)
    /\ listenerOptions' = StoredOptions(g, opt)
    /\ pendingListens' = [pendingListens EXCEPT
                            ![g] = @ \cup {[thr |-> Thresholds(opt), stale |-> FALSE]}]
    /\ last' = [Ev("listen", g) EXCEPT !.result = "pending"]
    /\ UNCHANGED <<conn, joining, staleJoins, players, plays,
                   activeListeners, opus, captures, finalizing>>

\* VoiceManager.startListening
StartListening(g, opt) == StartListeningNotConnected(g) \/ StartListeningBegin(g, opt)

\* mkdir is done: the 'start' handler is registered on the receiver of the
\* connection the call began with. Of several handlers on one receiver the
\* first adds the user to the capture set and the others return at the guard,
\* so the first handler's thresholds are the ones that count.
ListenRegistered(g, e) ==
    /\ e \in pendingListens[g]
    /\ conn' = IF ~e.stale /\ conn[g].hook = NoHook
               THEN [conn EXCEPT ![g].hook = e.thr]
               ELSE conn
    /\ pendingListens' = [pendingListens EXCEPT ![g] = @ \ {e}]
    /\ last' = [Ev("listen", g) EXCEPT !.listening = TRUE]
    /\ UNCHANGED <<joining, staleJoins, players, plays, listenerOptions,
                   activeListeners, opus, captures, finalizing>>

\* mkdir fails: startListening throws before it registers anything
ListenMkdirFails(g, e) ==
    /\ e \in pendingListens[g]
    /\ pendingListens' = [pendingListens EXCEPT ![g] = @ \ {e}]
    /\ last' = [Ev("listen", g) EXCEPT !.result = "error"]
    /\ UNCHANGED <<conn, joining, staleJoins, players, plays, listenerOptions,
                   activeListeners, opus, captures, finalizing>>

\* the decoders alive
Decoders ==
    UNION {{<<p[1], p[2], i>> : i \in DOMAIN captures[p[1]][p[2]]} : p \in Guilds \X Users}

\* the guard of handleSpeakingStart: the user is in the guild's capture set
AlreadyListening(g, u) == activeListeners[g].present /\ u \in activeListeners[g].users

\* handleSpeakingStart, run by the receiver's 'start' event
SpeakingStart(g, u) ==
    /\ conn[g].status = "Ready"
    /\ conn[g].hook # NoHook
    /\ IF AlreadyListening(g, u)
       THEN /\ last' = [Ev("speakingStart", g) EXCEPT !.user = u, !.result = "ignored"]
            /\ UNCHANGED <<activeListeners, opus, captures>>
       ELSE /\ Cardinality(Decoders) < MaxDecoders
            /\ activeListeners' = [activeListeners EXCEPT
                   ![g] = [present |-> TRUE, users |-> @.users \cup {u}]]
            /\ opus' = [opus EXCEPT ![g][u] =
                   IF @.open THEN @
                   ELSE [open |-> TRUE, silence |-> 0,
                         silenceThreshold |-> conn[g].hook.silenceThreshold]]
            /\ captures' = [captures EXCEPT ![g][u] =
                   Append(@, [hasChunks |-> FALSE, age |-> 0,
                              minSpeechDuration |-> conn[g].hook.minSpeechDuration,
                              attached |-> TRUE])]
            /\ last' = [Ev("speakingStart", g) EXCEPT !.user = u, !.result = "started"]
    /\ UNCHANGED <<conn, joining, staleJoins, players, plays, listenerOptions,
                   pendingListens, finalizing>>

\* time passes: Date.now() - startTime of every capture and the silence of every
\* stream grow by d; neither is counted beyond the threshold it is compared with
Tick(d) ==
    /\ \E g \in Guilds, u \in Users :
          /\ opus[g][u].open
          /\ \/ opus[g][u].silence < opus[g][u].silenceThreshold
             \/ \E i \in DOMAIN captures[g][u] :
                   captures[g][u][i].age < captures[g][u][i].minSpeechDuration
    /\ opus' = [g \in Guilds |-> [u \in Users |->
                  IF opus[g][u].open
                  THEN [opus[g][u] EXCEPT !.silence = Min2(@ + d, opus[g][u].silenceThreshold)]
                  ELSE opus[g][u]]]
    /\ captures' = [g \in Guilds |-> [u \in Users |->
                  [i \in DOMAIN captures[g][u] |->
                      [captures[g][u][i] EXCEPT
                          !.age = Min2(@ + d, captures[g][u][i].minSpeechDuration)]]]]
    /\ last' = Quiet
    /\ UNCHANGED <<conn, joining, staleJoins, players, plays, listenerOptions,
                   activeListeners, pendingListens, finalizing>>

\* decoder.on("data"): every decoder piped from the stream pushes the chunk.
\* Of the chunk list only whether it is empty is kept: that is all the 'end'
\* handler tests.
DecoderData(g, u) ==
    /\ conn[g].status = "Ready"
    /\ opus[g][u].open
    /\ opus' = [opus EXCEPT ![g][u].silence = 0]
    /\ captures' = [captures EXCEPT ![g][u] =
                      [i \in DOMAIN @ |-> [@[i] EXCEPT !.hasChunks = TRUE]]]
    /\ last' = Quiet
    /\ UNCHANGED <<conn, joining, staleJoins, players, plays, listenerOptions,
                   activeListeners, pendingListens, finalizing>>

\* the 'end' handler's test, were it to forget the empty chunk list
TooShortByDurationOnly(c) == c.age < c.minSpeechDuration

\* the 'end' handler's test: too short, or nothing decoded
TooShort(c) == c.age < c.minSpeechDuration \/ ~c.hasChunks

\* processAudio up to its first await: it returns at once without listenerOptions,
\* else it reads the guild's channel and goes on to write the WAV file
ProcessAudioStart(g, u, c) ==
    [guild |-> g, user |-> u, hasChunks |-> c.hasChunks,
     channelId |-> IF HasConnection(g) THEN conn[g].channelId ELSE "",
     pc |-> "writeFile", key |-> Unset, language |-> Unset, failed |-> FALSE]

\* the finalizations the 'end' handlers of these decoders start
Dispatch(g, u, cs) ==
    IF listenerOptions = NoOptions THEN <<>>
    ELSE LET kept == SelectSeq(cs, LAMBDA c : ~TooShort(c))
         IN [i \in DOMAIN kept |-> ProcessAudioStart(g, u, kept[i])]

\* whether some decoder's handler still holds the guild's current capture set
AnyAttached(cs) == \E i \in DOMAIN cs : cs[i].attached

\* the handlers, were they to leave the user in the set
ReleasedNever(g, u, cs) == activeListeners

\* the handlers, were they to clear the set instead of deleting the user
ReleasedAll(g, u, cs) ==
    IF AnyAttached(cs) /\ activeListeners[g].present
    THEN [activeListeners EXCEPT ![g].users = {}]
    ELSE activeListeners

\* guildListeners.delete(userId) by the handlers of these decoders
Released(g, u, cs) ==
    IF AnyAttached(cs) /\ activeListeners[g].present
    THEN [activeListeners EXCEPT ![g].users = @ \ {u}]
    ELSE activeListeners

\* the stream ends after its silence threshold: decoder.on("end") of every
\* decoder piped from it
StreamEnd(g, u) ==
    /\ opus[g][u].open
    /\ opus[g][u].silence >= opus[g][u].silenceThreshold
    /\ Len(finalizing) + Len(Dispatch(g, u, captures[g][u])) <= MaxFinalizing
    /\ opus' = [opus EXCEPT ![g][u] = NoStream]
    /\ captures' = [captures EXCEPT ![g][u] = <<>>]
    /\ activeListeners' = Released(g, u, captures[g][u])
    /\ finalizing' = finalizing \o Dispatch(g, u, captures[g][u])
    /\ last' = [Ev("end", g) EXCEPT !.user = u,
                  !.result = IF Len(Dispatch(g, u, captures[g][u])) > 0
                             THEN "dispatched" ELSE "discarded"]
    /\ UNCHANGED <<conn, joining, staleJoins, players, plays, listenerOptions,
                   pendingListens>>

\* decoder.on("error"): that decoder is destroyed and unpiped
DecoderError(g, u, i) ==
    /\ i \in DOMAIN captures[g][u]
    /\ captures' = [captures EXCEPT ![g][u] = RemoveAt(@, i)]
    /\ activeListeners' = Released(g, u, <<captures[g][u][i]>>)
    /\ last' = [Ev("decoderError", g) EXCEPT !.user = u]
    /\ UNCHANGED <<conn, joining, staleJoins, players, plays, listenerOptions,
                   pendingListens, opus, finalizing>>

\* opusStream.on("error"): the stream is destroyed; its decoders get no 'end'
OpusError(g, u) ==
    /\ opus[g][u].open
    /\ opus' = [opus EXCEPT ![g][u] = NoStream]
    /\ captures' = [captures EXCEPT ![g][u] = <<>>]
    /\ activeListeners' = Released(g, u, captures[g][u])
    /\ last' = [Ev("opusError", g) EXCEPT !.user = u]
    /\ UNCHANGED <<conn, joining, staleJoins, players, plays, listenerOptions,
                   pendingListens, finalizing>>

Detached(cs) == [i \in DOMAIN cs |-> [cs[i] EXCEPT !.attached = FALSE]]

\* stopListening, were it to drop the listener options as well
StopListeningAndForget(g) ==
    /\ IF activeListeners[g].present
       THEN /\ activeListeners' = [activeListeners EXCEPT ![g] = NoSet]
            /\ captures' = [captures EXCEPT ![g] = [u \in Users |-> Detached(@[u])]]
       ELSE UNCHANGED <<activeListeners, captures>>
    /\ listenerOptions' = NoOptions
    /\ last' = Ev("stopListening", g)
    /\ UNCHANGED <<conn, joining, staleJoins, players, plays,
                   pendingListens, opus, finalizing>>

\* VoiceManager.stopListening: the set is cleared and dropped from the map; the
\* decoders that hold it go on, holding a set the map no longer has
StopListening(g) ==
    /\ IF activeListeners[g].present
       THEN /\ activeListeners' = [activeListeners EXCEPT ![g] = NoSet]
            /\ captures' = [captures EXCEPT ![g] = [u \in Users |-> Detached(@[u])]]
       ELSE UNCHANGED <<activeListeners, captures>>
    /\ last' = Ev("stopListening", g)
    /\ UNCHANGED <<conn, joining, staleJoins, players, plays, listenerOptions,
                   pendingListens, opus, finalizing>>

(* ------------------------------------------------------------------ *)
(* processAudio: one finished utterance, from the WAV file to the       *)
(* callback                                                             *)
(* ------------------------------------------------------------------ *)

\* a transcript: its length once punctuation and blanks are stripped, whether a
\* noise pattern matches it, and whether blanks surround it
Text(len, pattern, padded) == [len |-> len, pattern |-> pattern, padded |-> padded]

\* String.trim
Trim(t) == [t EXCEPT !.padded = FALSE]

\* what the transcription endpoint answers: the HTTP outcome, the no_speech_prob
\* of each segment in tenths (no segments: the field is absent or empty), the text
Responses ==
    { [ok |-> FALSE, segments |-> <<>>, text |-> Text(0, TRUE, FALSE)],
      [ok |-> TRUE, segments |-> <<6>>, text |-> Text(5, FALSE, FALSE)],
      [ok |-> TRUE, segments |-> <<2>>, text |-> Text(5, FALSE, TRUE)],
      [ok |-> TRUE, segments |-> <<5>>, text |-> Text(5, FALSE, FALSE)],
      [ok |-> TRUE, segments |-> <<8, 1>>, text |-> Text(5, FALSE, FALSE)],
      [ok |-> TRUE, segments |-> <<>>, text |-> Text(5, FALSE, TRUE)],
      [ok |-> TRUE, segments |-> <<2>>, text |-> Text(2, TRUE, FALSE)] }

\* segments.reduce((sum, seg) => sum + seg.no_speech_prob, 0), in tenths
RECURSIVE SumSeq(_)
SumSeq(q) == IF q = <<>> THEN 0 ELSE Head(q) + SumSeq(Tail(q))

\* the confidence filter, were it to look for one segment above 0.5
LowConfidenceAnySegment(r) == \E k \in DOMAIN r.segments : r.segments[k] > 5

\* the confidence filter: the mean no_speech_prob of the segments is above 0.5
LowConfidence(r) ==
    Len(r.segments) > 0 /\ SumSeq(r.segments) > 5 * Len(r.segments)

\* isNoiseTranscript
isNoiseTranscript(t) == t.len < 3 \/ t.pattern

\* processAudio's test on what transcribeWithWhisper returned
Delivers(r) ==
    r.ok /\ ~LowConfidence(r) /\ Trim(r.text).len > 0 /\ ~isNoiseTranscript(Trim(r.text))

Replace(q, i, x) == [q EXCEPT ![i] = x]

\* the temporary WAV file of a processAudio call exists once writeFile is done
HasTempFile(f) == f.pc # "writeFile"

\* writeFile is done; transcribeWithWhisper begins and reads the API key
PaWriteDone(i) ==
    /\ i \in DOMAIN finalizing
    /\ finalizing[i].pc = "writeFile"
    /\ finalizing' = Replace(finalizing, i,
          [finalizing[i] EXCEPT !.pc = "readFile",
                                !.key = listenerOptions.openaiApiKey])
    /\ last' = Quiet
    /\ UNCHANGED <<conn, joining, staleJoins, players, plays, listenerOptions,
                   activeListeners, pendingListens, opus, captures>>

\* writeFile fails: processAudio rejects, which the 'end' handler logs
PaWriteFails(i) ==
    /\ i \in DOMAIN finalizing
    /\ finalizing[i].pc = "writeFile"
    /\ finalizing' = RemoveAt(finalizing, i)
    /\ last' = [Ev("processAudio", finalizing[i].guild) EXCEPT
                  !.user = finalizing[i].user, !.result = "failed"]
    /\ UNCHANGED <<conn, joining, staleJoins, players, plays, listenerOptions,
                   activeListeners, pendingListens, opus, captures>>

\* readFile is done; the language hint is read and the request is sent
PaReadDone(i) ==
    /\ i \in DOMAIN finalizing
    /\ finalizing[i].pc = "readFile"
    /\ finalizing' = Replace(finalizing, i,
          [finalizing[i] EXCEPT !.pc = "fetch", !.language = listenerOptions.language])
    /\ last' = Quiet
    /\ UNCHANGED <<conn, joining, staleJoins, players, plays, listenerOptions,
                   activeListeners, pendingListens, opus, captures>>

\* readFile fails: transcribeWithWhisper throws and the finally block runs next
PaReadFails(i) ==
    /\ i \in DOMAIN finalizing
    /\ finalizing[i].pc = "readFile"
    /\ finalizing' = Replace(finalizing, i,
          [finalizing[i] EXCEPT !.pc = "unlink", !.failed = TRUE])
    /\ last' = [Ev("transcribed", finalizing[i].guild) EXCEPT
                  !.user = finalizing[i].user, !.result = "failed"]
    /\ UNCHANGED <<conn, joining, staleJoins, players, plays, listenerOptions,
                   activeListeners, pendingListens, opus, captures>>

\* the callback processAudio calls
CallbackUsed(f) == listenerOptions.onTranscription

\* the endpoint answers: an error status throws, a filtered or noise transcript is
\* dropped, any other is handed to this.listenerOptions.onTranscription
PaResponse(i, r) ==
    /\ i \in DOMAIN finalizing
    /\ finalizing[i].pc = "fetch"
    /\ LET f == finalizing[i] IN
         IF Delivers(r)
         THEN /\ finalizing' = Replace(finalizing, i,
                    [f EXCEPT !.pc = "callback"])
              /\ last' = [Ev("callback", f.guild) EXCEPT
                            !.user = f.user, !.channelId = f.channelId,
                            !.cb = CallbackUsed(f), !.language = f.language,
                            !.key = f.key, !.text = Trim(r.text)]
         ELSE /\ finalizing' = Replace(finalizing, i,
                    [f EXCEPT !.pc = "unlink", !.failed = ~r.ok])
              /\ last' = [Ev("transcribed", f.guild) EXCEPT
                            !.user = f.user,
                            !.result = IF r.ok THEN "filtered" ELSE "failed"]
    /\ UNCHANGED <<conn, joining, staleJoins, players, plays, listenerOptions,
                   activeListeners, pendingListens, opus, captures>>

\* the callback's promise settles, were a rejection to skip the cleanup
PaCallbackDoneNoFinally(i, ok) ==
    /\ i \in DOMAIN finalizing
    /\ finalizing[i].pc = "callback"
    /\ finalizing' = IF ok
                     THEN Replace(finalizing, i, [finalizing[i] EXCEPT !.pc = "unlink"])
                     ELSE RemoveAt(finalizing, i)
    /\ last' = Quiet
    /\ UNCHANGED <<conn, joining, staleJoins, players, plays, listenerOptions,
                   activeListeners, pendingListens, opus, captures>>

\* the callback's promise settles, either way the finally block runs next
PaCallbackDone(i, ok) ==
    /\ i \in DOMAIN finalizing
    /\ finalizing[i].pc = "callback"
    /\ finalizing' = Replace(finalizing, i,
          [finalizing[i] EXCEPT !.pc = "unlink", !.failed = ~ok])
    /\ last' = Quiet
    /\ UNCHANGED <<conn, joining, staleJoins, players, plays, listenerOptions,
                   activeListeners, pendingListens, opus, captures>>

\* unlink in the finally block; its failure is ignored, and processAudio settles
\* as its try block did
PaUnlink(i, ok) ==
    /\ i \in DOMAIN finalizing
    /\ finalizing[i].pc = "unlink"
    /\ finalizing' = RemoveAt(finalizing, i)
    /\ last' = [Ev("processAudio", finalizing[i].guild) EXCEPT
                  !.user = finalizing[i].user,
                  !.result = IF finalizing[i].failed THEN "failed" ELSE "ok"]
    /\ UNCHANGED <<conn, joining, staleJoins, players, plays, listenerOptions,
                   activeListeners, pendingListens, opus, captures>>

(* ------------------------------------------------------------------ *)
(* Playback: play, stop and the player's events                         *)
(* ------------------------------------------------------------------ *)

\* the guild's player, were play to create one at every call
PlayerFresh(g) ==
    [exists |-> TRUE, status |-> "Idle", resource |-> Unset, subscribed |-> TRUE]

\* the guild's player: the registered one, else a new one subscribed to the connection
PlayerFor(g) ==
    IF players[g].exists THEN players[g]
    ELSE [exists |-> TRUE, status |-> "Idle", resource |-> Unset, subscribed |-> TRUE]

\* play without a connection throws
PlayNotConnected(g, file) ==
    /\ ~HasConnection(g)
    /\ last' = [Ev("play", g) EXCEPT !.result = "NotConnected"]
    /\ UNCHANGED <<conn, joining, staleJoins, players, plays, listenerOptions,
                   activeListeners, pendingListens, opus, captures, finalizing>>

\* play, were it to look for the file after it has set up the player
PlayFileNotFoundLate(g, file) ==
    /\ HasConnection(g)
    /\ file \notin ExistingFiles
    /\ players' = [players EXCEPT ![g] = PlayerFor(g)]
    /\ last' = [Ev("play", g) EXCEPT !.result = "FileNotFound"]
    /\ UNCHANGED <<conn, joining, staleJoins, plays, listenerOptions,
                   activeListeners, pendingListens, opus, captures, finalizing>>

\* play of a path that does not exist throws
PlayFileNotFound(g, file) ==
    /\ HasConnection(g)
    /\ file \notin ExistingFiles
    /\ last' = [Ev("play", g) EXCEPT !.result = "FileNotFound"]
    /\ UNCHANGED <<conn, joining, staleJoins, players, plays, listenerOptions,
                   activeListeners, pendingListens, opus, captures, finalizing>>

\* play, were the replacement of a resource to settle the calls that await the player
PlayStartSettlesEarlier(g, file) ==
    /\ HasConnection(g)
    /\ file \in ExistingFiles
    /\ Len(plays[g]) < MaxPlays
    /\ players' = [players EXCEPT ![g] =
          [PlayerFor(g) EXCEPT !.resource = file,
               !.status = IF PlayerFor(g).subscribed THEN "Playing" ELSE "AutoPaused"]]
    /\ plays' = [plays EXCEPT ![g] = <<file>>]
    /\ last' = [Ev("play", g) EXCEPT !.result = "pending"]
    /\ UNCHANGED <<conn, joining, staleJoins, listenerOptions,
                   activeListeners, pendingListens, opus, captures, finalizing>>

\* play, were a busy player to keep its resource and take the new one afterwards
PlayStartQueued(g, file) ==
    /\ HasConnection(g)
    /\ file \in ExistingFiles
    /\ Len(plays[g]) < MaxPlays
    /\ players' = [players EXCEPT ![g] =
          IF PlayerFor(g).status # "Idle" THEN PlayerFor(g)
          ELSE [PlayerFor(g) EXCEPT !.resource = file,
                   !.status = IF PlayerFor(g).subscribed THEN "Playing" ELSE "AutoPaused"]]
    /\ plays' = [plays EXCEPT ![g] = Append(@, file)]
    /\ last' = [Ev("play", g) EXCEPT !.result = "pending"]
    /\ UNCHANGED <<conn, joining, staleJoins, listenerOptions,
                   activeListeners, pendingListens, opus, captures, finalizing>>

\* play: the player takes the resource and the call awaits the player's events
PlayStart(g, file) ==
    /\ HasConnection(g)
    /\ file \in ExistingFiles
    /\ Len(plays[g]) < MaxPlays
    /\ players' = [players EXCEPT ![g] =
          [PlayerFor(g) EXCEPT !.resource = file,
               !.status = IF PlayerFor(g).subscribed THEN "Playing" ELSE "AutoPaused"]]
    /\ plays' = [plays EXCEPT ![g] = Append(@, file)]
    /\ last' = [Ev("play", g) EXCEPT !.result = "pending"]
    /\ UNCHANGED <<conn, joining, staleJoins, listenerOptions,
                   activeListeners, pendingListens, opus, captures, finalizing>>

\* VoiceManager.play
Play(g, file) == PlayNotConnected(g, file) \/ PlayFileNotFound(g, file) \/ PlayStart(g, file)

\* the resource ends: the player goes Idle and every pending play resolves
PlayerIdle(g) ==
    /\ players[g].exists /\ players[g].status = "Playing"
    /\ players' = [players EXCEPT ![g].status = "Idle", ![g].resource = Unset]
    /\ plays' = [plays EXCEPT ![g] = <<>>]
    /\ last' = Ev("played", g)
    /\ UNCHANGED <<conn, joining, staleJoins, listenerOptions,
                   activeListeners, pendingListens, opus, captures, finalizing>>

\* the player reports an error: every pending play rejects
PlayerError(g) ==
    /\ players[g].exists /\ players[g].status = "Playing"
    /\ players' = [players EXCEPT ![g].status = "Idle", ![g].resource = Unset]
    /\ plays' = [plays EXCEPT ![g] = <<>>]
    /\ last' = [Ev("played", g) EXCEPT !.result = "error"]
    /\ UNCHANGED <<conn, joining, staleJoins, listenerOptions,
                   activeListeners, pendingListens, opus, captures, finalizing>>

\* VoiceManager.stop
Stop(g) ==
    /\ IF players[g].exists /\ players[g].status # "Idle"
       THEN /\ players' = [players EXCEPT ![g].status = "Idle", ![g].resource = Unset]
            /\ plays' = [plays EXCEPT ![g] = <<>>]
       ELSE UNCHANGED <<players, plays>>
    /\ last' = Ev("stop", g)
    /\ UNCHANGED <<conn, joining, staleJoins, listenerOptions,
                   activeListeners, pendingListens, opus, captures, finalizing>>

(* ------------------------------------------------------------------ *)
(* pcmToWav: the WAV header                                             *)
(* ------------------------------------------------------------------ *)

\* the PCM buffers pcmToWav is given: byte sequences up to MaxPcmLen long
PcmBytes == {0, 1, 255}
PcmInputs == UNION {[1..n -> PcmBytes] : n \in 0..MaxPcmLen}
SampleRates == {16000, 48000}
ChannelCounts == {1, 2}
BitDepths == {8, 16}

\* header.write of a four-character tag: its ASCII codes
TagRIFF == <<82, 73, 70, 70>>
TagWAVE == <<87, 65, 86, 69>>
TagFmt == <<102, 109, 116, 32>>
TagData == <<100, 97, 116, 97>>

\* writeUInt32LE, were it to write the most significant byte first
U32BE(v) ==
    <<(v \div 16777216) % 256, (v \div 65536) % 256, (v \div 256) % 256, v % 256>>

\* Buffer.writeUInt32LE: four bytes, least significant first
U32LE(v) ==
    <<v % 256, (v \div 256) % 256, (v \div 65536) % 256, (v \div 16777216) % 256>>

\* Buffer.writeUInt16LE
U16LE(v) == <<v % 256, (v \div 256) % 256>>

\* VoiceManager.pcmToWav
pcmToWav(pcm, sampleRate, channels, bitsPerSample) ==
    LET byteRate == (sampleRate * channels * bitsPerSample) \div 8
        blockAlign == (channels * bitsPerSample) \div 8
        dataSize == Len(pcm)
        headerSize == 44
        fileSize == headerSize + dataSize - 8
        header == TagRIFF \o U32LE(fileSize) \o TagWAVE
                  \o TagFmt \o U32LE(16) \o U16LE(1) \o U16LE(channels)
                  \o U32LE(sampleRate) \o U32LE(byteRate) \o U16LE(blockAlign)
                  \o U16LE(bitsPerSample)
                  \o TagData \o U32LE(dataSize)
    IN header \o pcm

\* a call of pcmToWav returns
PcmToWav(pcm, sampleRate, channels, bitsPerSample) ==
    /\ last' = [op |-> "pcmToWav", guild |-> Unset, pcm |-> pcm,
                sampleRate |-> sampleRate, channels |-> channels,
                bitsPerSample |-> bitsPerSample,
                wav |-> pcmToWav(pcm, sampleRate, channels, bitsPerSample)]
    /\ UNCHANGED <<conn, joining, staleJoins, players, plays, listenerOptions,
                   activeListeners, pendingListens, opus, captures, finalizing>>

(* ------------------------------------------------------------------ *)
(* The command surface: handleVoiceAction                               *)
(* ------------------------------------------------------------------ *)

Actions == {"join", "play", "stop", "leave", "tts", "status", "listen", "stop-listen"}

\* a call of handleVoiceAction: whether a bot token is configured, the action (one
\* of the schema or another string), whether guildId and the action's second
\* parameter (channelId, filePath, text) are given, whether the guild is
\* connected, whether OPENAI_API_KEY is set, whether textToSpeech succeeds, and
\* whether the manager operation or textToSpeech throws
Commands ==
    [token : BOOLEAN, action : Actions \cup {"other"}, guildId : BOOLEAN,
     arg : BOOLEAN, connected : BOOLEAN, apiKey : BOOLEAN, ttsOk : BOOLEAN,
     throws : {"none", "manager", "tts"}]

\* what an action has done when it returns or throws: the details.error it
\* returns (Unset: none), whether it threw, the manager operations it invoked
Done(error, threw, called) == [error |-> error, threw |-> threw, called |-> called]

\* the body of the try block: the switch over the action
ActionBody(p) ==
    LET mgr(op) == IF p.throws = "manager"
                   THEN Done(Unset, TRUE, <<op>>) ELSE Done(Unset, FALSE, <<op>>)
    IN CASE p.action = "join" ->
              IF ~p.guildId \/ ~p.arg THEN Done("missing_params", FALSE, <<>>)
              ELSE IF p.throws = "manager" THEN Done(Unset, TRUE, <<"join">>)
              ELSE IF p.apiKey THEN Done(Unset, FALSE, <<"join", "startListening">>)
              ELSE Done(Unset, FALSE, <<"join">>)
         [] p.action = "play" ->
              IF ~p.guildId \/ ~p.arg THEN Done("missing_params", FALSE, <<>>)
              ELSE mgr("play")
         [] p.action = "stop" ->
              IF ~p.guildId THEN Done("missing_params", FALSE, <<>>) ELSE mgr("stop")
         [] p.action = "leave" ->
              IF ~p.guildId THEN Done("missing_params", FALSE, <<>>) ELSE mgr("leave")
         [] p.action = "tts" ->
              IF ~p.guildId \/ ~p.arg THEN Done("missing_params", FALSE, <<>>)
              ELSE IF ~p.connected THEN Done("not_connected", FALSE, <<"isConnected">>)
              ELSE IF p.throws = "tts" THEN Done(Unset, TRUE, <<"isConnected">>)
              ELSE IF ~p.ttsOk THEN Done("tts_failed", FALSE, <<"isConnected">>)
              ELSE IF p.throws = "manager" THEN Done(Unset, TRUE, <<"isConnected", "play">>)
              ELSE Done(Unset, FALSE, <<"isConnected", "play">>)
         [] p.action = "status" ->
              IF p.guildId
              THEN Done(Unset, FALSE, <<"isConnected", "getChannelId", "isListening">>)
              ELSE Done(Unset, FALSE, <<>>)
         [] p.action = "listen" ->
              IF ~p.guildId THEN Done("missing_params", FALSE, <<>>)
              ELSE IF ~p.connected THEN Done("not_connected", FALSE, <<"isConnected">>)
              ELSE IF ~p.apiKey THEN Done("missing_api_key", FALSE, <<"isConnected">>)
              ELSE IF p.throws = "manager"
                   THEN Done(Unset, TRUE, <<"isConnected", "startListening">>)
              ELSE Done(Unset, FALSE, <<"isConnected", "startListening">>)
         [] p.action = "stop-listen" ->
              IF ~p.guildId THEN Done("missing_params", FALSE, <<>>)
              ELSE mgr("stopListening")
         [] OTHER -> Done("unknown_action", FALSE, <<>>)

\* the try block, were it to have no catch
Uncaught(d) == d

\* the catch of handleVoiceAction: what is thrown becomes details.error = message
Caught(d) == IF d.threw THEN Done("message", FALSE, d.called) ELSE d

\* handleVoiceAction
handleVoiceAction(p) ==
    IF ~p.token THEN Done("missing_token", FALSE, <<>>) ELSE Caught(ActionBody(p))

\* a call of the voice tool returns
Command(p) ==
    /\ last' = [op |-> "command", guild |-> Unset, params |-> p,
                result |-> handleVoiceAction(p)]
    /\ UNCHANGED <<conn, joining, staleJoins, players, plays, listenerOptions,
                   activeListeners, pendingListens, opus, captures, finalizing>>

\* the methods of a VoiceManager leave the module's own variables alone
ManagerOnly == UNCHANGED <<voiceManager, activeVoiceGuildId>>

(* ------------------------------------------------------------------ *)
(* The module's voiceManager and activeVoiceGuildId, and the commands   *)
(* of the voice tool that read and write them                           *)
(* ------------------------------------------------------------------ *)

\* the fields of the VoiceManager and what the voice library tracks for it
instanceVars == <<conn, joining, staleJoins, players, plays, listenerOptions,
                  activeListeners, pendingListens, opus, captures, finalizing>>

\* getVoiceManager(token), called with a token as every command calls it: the
\* module's manager afterwards. A manager that is missing is constructed, and
\* its constructor starts the login of its client.
getVoiceManager == IF voiceManager = "unset" THEN "login" ELSE voiceManager

\* the join command, when the module has no manager: initVoiceManager
\* constructs one, stores it and awaits its readiness
InitVoiceManager(g) ==
    /\ voiceManager = "unset"
    /\ voiceManager' = "login"
    /\ last' = [Ev("join", g) EXCEPT !.result = "login"]
    /\ UNCHANGED activeVoiceGuildId
    /\ UNCHANGED instanceVars

\* the client's 'ready' event: readyPromise resolves
ClientReady ==
    /\ voiceManager = "login"
    /\ voiceManager' = "ready"
    /\ last' = Quiet
    /\ UNCHANGED activeVoiceGuildId
    /\ UNCHANGED instanceVars

\* the client's 'error' event, a rejected login or the 30 s timeout:
\* readyPromise rejects, for good
LoginFails ==
    /\ voiceManager = "login"
    /\ voiceManager' = "failed"
    /\ last' = Quiet
    /\ UNCHANGED activeVoiceGuildId
    /\ UNCHANGED instanceVars

\* the join command on a manager whose login failed: initVoiceManager's await
\* of waitReady, or join's own, rejects, and the command reports the error
CmdJoinLoginFailed(g) ==
    /\ voiceManager = "failed"
    /\ last' = [Ev("join", g) EXCEPT !.result = "LoginError"]
    /\ UNCHANGED <<voiceManager, activeVoiceGuildId>>
    /\ UNCHANGED instanceVars

\* the join command, once manager.join has returned the connection:
\* setActiveVoiceGuild(guildId) when OPENAI_API_KEY is set. (The listening the
\* command starts next is StartListening.)
Joined(g, apiKey) ==
    /\ activeVoiceGuildId' = IF apiKey THEN g ELSE activeVoiceGuildId
    /\ UNCHANGED voiceManager

\* the join command on a ready manager: manager.join
CmdJoinNotVoiceChannel(g, ch) ==
    voiceManager = "ready" /\ JoinNotVoiceChannel(g, ch) /\ ManagerOnly

CmdJoinRejoin(g, ch, apiKey) ==
    voiceManager = "ready" /\ JoinRejoin(g, ch) /\ Joined(g, apiKey)

CmdJoinCreate(g, ch) ==
    voiceManager = "ready" /\ JoinCreate(g, ch) /\ ManagerOnly

\* the connection becomes Ready: the join command that awaits it goes on
CmdJoinReady(g, apiKey) ==
    /\ ConnReady(g)
    /\ IF joining[g] # Unset THEN Joined(g, apiKey) ELSE ManagerOnly

\* the leave command
CmdLeave(g) ==
    /\ voiceManager' = getVoiceManager
    /\ Leave(g)
    /\ activeVoiceGuildId' = Unset

\* the status command with a guildId
CmdStatus(g) ==
    /\ voiceManager' = getVoiceManager
    /\ Status(g)
    /\ UNCHANGED activeVoiceGuildId

\* the stop command
CmdStop(g) ==
    /\ voiceManager' = getVoiceManager
    /\ Stop(g)
    /\ UNCHANGED activeVoiceGuildId

\* the play command
CmdPlay(g, file) ==
    /\ voiceManager' = getVoiceManager
    /\ Play(g, file)
    /\ UNCHANGED activeVoiceGuildId

(* ------------------------------------------------------------------ *)
(* The specification                                                    *)
(* ------------------------------------------------------------------ *)

\* join and the connection becoming Ready, for the guilds G and the channels C
LinkStep(G, C) ==
    \/ \E g \in G : \E ch \in JoinChannels(g) \cap C : JoinNotVoiceChannel(g, ch) /\ ManagerOnly
    \/ \E g \in G : \E ch \in JoinChannels(g) \cap C : JoinRejoin(g, ch) /\ ManagerOnly
    \/ \E g \in G : \E ch \in JoinChannels(g) \cap C : JoinCreate(g, ch) /\ ManagerOnly
    \/ \E g \in G : ConnReady(g) /\ ManagerOnly

\* the ways a connection ends, and the status query, for the guilds G
UnlinkStep(G) ==
    \/ \E g \in G : JoinTimeout(g) /\ ManagerOnly
    \/ \E g \in G : StaleJoinTimeout(g) /\ ManagerOnly
    \/ \E g \in G : ConnDisconnected(g) /\ ManagerOnly
    \/ \E g \in G : Leave(g) /\ ManagerOnly
    \/ \E g \in G : Status(g) /\ ManagerOnly

\* listening and capture for the guilds G and the users U
HearStep(G, U) ==
    \/ \E g \in G : StartListeningNotConnected(g) /\ ManagerOnly
    \/ \E g \in G : \E opt \in OptionsFor(g) : StartListeningBegin(g, opt) /\ ManagerOnly
    \/ \E g \in G : \E e \in pendingListens[g] : ListenRegistered(g, e) /\ ManagerOnly
    \/ \E g \in G, u \in U : SpeakingStart(g, u) /\ ManagerOnly
    \/ \E d \in Delays : Tick(d) /\ ManagerOnly
    \/ \E g \in G, u \in U : DecoderData(g, u) /\ ManagerOnly
    \/ \E g \in G, u \in U : StreamEnd(g, u) /\ ManagerOnly

\* what fails while listening
FaultStep(G, U) ==
    \/ \E g \in G : \E e \in pendingListens[g] : ListenMkdirFails(g, e) /\ ManagerOnly
    \/ \E g \in G, u \in U, i \in 1..MaxDecoders : DecoderError(g, u, i) /\ ManagerOnly
    \/ \E g \in G, u \in U : OpusError(g, u) /\ ManagerOnly

\* the steps of the processAudio calls in flight
FinalizeStep ==
    \/ \E i \in 1..MaxFinalizing : PaWriteDone(i) /\ ManagerOnly
    \/ \E i \in 1..MaxFinalizing : PaWriteFails(i) /\ ManagerOnly
    \/ \E i \in 1..MaxFinalizing : PaReadDone(i) /\ ManagerOnly
    \/ \E i \in 1..MaxFinalizing : PaReadFails(i) /\ ManagerOnly
    \/ \E i \in 1..MaxFinalizing, r \in Responses : PaResponse(i, r) /\ ManagerOnly
    \/ \E i \in 1..MaxFinalizing, ok \in BOOLEAN : PaCallbackDone(i, ok) /\ ManagerOnly
    \/ \E i \in 1..MaxFinalizing, ok \in BOOLEAN : PaUnlink(i, ok) /\ ManagerOnly

\* playback for the guilds G
PlayStep(G) ==
    \/ \E g \in G, file \in Files : PlayNotConnected(g, file) /\ ManagerOnly
    \/ \E g \in G, file \in Files : PlayFileNotFound(g, file) /\ ManagerOnly
    \/ \E g \in G, file \in Files : PlayStart(g, file) /\ ManagerOnly
    \/ \E g \in G : PlayerIdle(g) /\ ManagerOnly
    \/ \E g \in G : PlayerError(g) /\ ManagerOnly
    \/ \E g \in G : Stop(g) /\ ManagerOnly

AllChannels == UNION {JoinChannels(g) : g \in Guilds}

Next ==
    \/ LinkStep(Guilds, AllChannels)
    \/ UnlinkStep(Guilds)
    \/ HearStep(Guilds, Users)
    \/ FaultStep(Guilds, Users)
    \/ \E g \in Guilds : StopListening(g) /\ ManagerOnly
    \/ FinalizeStep
    \/ PlayStep(Guilds)
    \/ \E torn \in BOOLEAN : Destroy(torn) /\ ManagerOnly

Spec == Init /\ [][Next]_vars

\* connections alone
NextJoin == LinkStep(Guilds, AllChannels) \/ UnlinkStep(Guilds)
SpecJoin == Init /\ [][NextJoin]_vars

\* connections and playback
NextPlay == LinkStep(Guilds, AllChannels) \/ UnlinkStep(Guilds) \/ PlayStep(Guilds)
SpecPlay == Init /\ [][NextPlay]_vars

\* connections and playback of one guild
NextPlayOne ==
    \/ LinkStep({"g1"}, {"c1", TextChannel})
    \/ UnlinkStep({"g1"})
    \/ PlayStep({"g1"})
SpecPlayOne == Init /\ [][NextPlayOne]_vars

\* the same, with fair delivery of the player's events: a resource that is
\* playing eventually ends or fails
SpecPlayFair ==
    /\ Init
    /\ [][NextPlayOne]_vars
    /\ WF_vars((PlayerIdle("g1") \/ PlayerError("g1")) /\ ManagerOnly)

\* the calls of pcmToWav
NextWav ==
    \E pcm \in PcmInputs, r \in SampleRates, c \in ChannelCounts, b \in BitDepths :
        PcmToWav(pcm, r, c, b) /\ ManagerOnly
SpecWav == Init /\ [][NextWav]_vars

\* the calls of the voice tool
NextCommand == \E p \in Commands : Command(p) /\ ManagerOnly
SpecCommand == Init /\ [][NextCommand]_vars

\* connections, playback and the end of the manager
NextDestroy ==
    \/ LinkStep(Guilds, {"c1", "c3", TextChannel})
    \/ PlayStep(Guilds)
    \/ \E torn \in BOOLEAN : Destroy(torn) /\ ManagerOnly
SpecDestroy == Init /\ [][NextDestroy]_vars

\* no join is in flight
NoneInFlight == \A g \in Guilds : joining[g] = Unset /\ ~staleJoins[g]

\* a caller that awaits each command before it issues the next
SeqStep(G) ==
    \/ \E g \in G : \E ch \in JoinChannels(g) :
           NoneInFlight /\ JoinNotVoiceChannel(g, ch) /\ ManagerOnly
    \/ \E g \in G : \E ch \in JoinChannels(g) :
           NoneInFlight /\ JoinRejoin(g, ch) /\ ManagerOnly
    \/ \E g \in G : \E ch \in JoinChannels(g) :
           NoneInFlight /\ JoinCreate(g, ch) /\ ManagerOnly
    \/ \E g \in G : NoneInFlight /\ Leave(g) /\ ManagerOnly
    \/ \E g \in G : NoneInFlight /\ Status(g) /\ ManagerOnly
    \/ \E g \in G : ConnReady(g) /\ ManagerOnly
    \/ \E g \in G : JoinTimeout(g) /\ ManagerOnly
    \/ \E g \in G : ConnDisconnected(g) /\ ManagerOnly

NextSeq == SeqStep(Guilds)
SpecSeq == Init /\ [][NextSeq]_vars

\* one guild with one user: listening, capture, stopListening and transcription
NextUser ==
    \/ LinkStep({"g1"}, {"c1", TextChannel})
    \/ HearStep({"g1"}, {"u1"})
    \/ FaultStep({"g1"}, {"u1"})
    \/ StopListening("g1") /\ ManagerOnly
    \/ FinalizeStep
SpecUser == Init /\ [][NextUser]_vars

\* one guild with two users: listening, capture, failures and transcription;
\* the second user goes on speaking, so that only the first one's streams end
NextFaults ==
    \/ LinkStep({"g1"}, {"c1", TextChannel})
    \/ HearStep({"g1"}, {"u1"})
    \/ SpeakingStart("g1", "u2") /\ ManagerOnly
    \/ DecoderData("g1", "u2") /\ ManagerOnly
    \/ FaultStep({"g1"}, Users)
    \/ FinalizeStep
SpecFaults == Init /\ [][NextFaults]_vars

\* two guilds with one user each: listening, capture and transcription
NextGuilds ==
    \/ LinkStep(Guilds, {"c1", "c3", TextChannel})
    \/ HearStep(Guilds, {"u1"})
    \/ FinalizeStep
SpecGuilds == Init /\ [][NextGuilds]_vars

\* one guild with one user: leaving while listening
NextLeave ==
    \/ LinkStep({"g1"}, {"c1", TextChannel})
    \/ UnlinkStep({"g1"})
    \/ HearStep({"g1"}, {"u1"})
    \/ StopListening("g1") /\ ManagerOnly
    \/ FinalizeStep
SpecLeave == Init /\ [][NextLeave]_vars

\* the join, leave, status, stop and play commands of the voice tool on the
\* module's manager, with the login of its client and the events of the
\* connections and players
NextSingleton ==
    \/ \E g \in Guilds : InitVoiceManager(g)
    \/ ClientReady
    \/ LoginFails
    \/ \E g \in Guilds : CmdJoinLoginFailed(g)
    \/ \E g \in Guilds : CmdJoinNotVoiceChannel(g, TextChannel)
    \/ \E g \in Guilds : \E ch \in VoiceChannels(g) \cap {"c1", "c3"}, apiKey \in BOOLEAN :
           CmdJoinRejoin(g, ch, apiKey)
    \/ \E g \in Guilds : \E ch \in VoiceChannels(g) \cap {"c1", "c3"} :
           CmdJoinCreate(g, ch)
    \/ \E g \in Guilds, apiKey \in BOOLEAN : CmdJoinReady(g, apiKey)
    \/ \E g \in Guilds : JoinTimeout(g) /\ ManagerOnly
    \/ \E g \in Guilds : StaleJoinTimeout(g) /\ ManagerOnly
    \/ \E g \in Guilds : CmdLeave(g)
    \/ \E g \in Guilds : CmdStatus(g)
    \/ \E g \in Guilds : CmdStop(g)
    \/ \E g \in Guilds, file \in Files : CmdPlay(g, file)
    \/ \E g \in Guilds : PlayerIdle(g) /\ ManagerOnly
    \/ \E g \in Guilds : PlayerError(g) /\ ManagerOnly
SpecSingleton == Init /\ [][NextSingleton]_vars

(* ------------------------------------------------------------------ *)
(* The claims                                                           *)
(* ------------------------------------------------------------------ *)

\* C1: at most one utterance buffer (a decoder with its chunk list) exists per
\* (guild, user) pair in every reachable state.
C1_AtMostOneBuffer ==
    \A g \in Guilds, u \in Users : Len(captures[g][u]) <= 1

C3_ShortUtteranceDiscarded ==
    [][\A g \in Guilds, u \in Users :
          StreamEnd(g, u) =>
             LET cs == captures[g][u]
                 long == {i \in DOMAIN cs :
                             cs[i].age >= cs[i].minSpeechDuration /\ cs[i].hasChunks}
             IN /\ Len(finalizing') = Len(finalizing) + Cardinality(long)
                /\ \A i \in DOMAIN finalizing' : finalizing'[i].hasChunks
                /\ long = {} => (finalizing' = finalizing /\ last'.result = "discarded")]_vars

\* C3: a stream has ended and its utterance was discarded
C3_Witness ==
    last.op = "end" /\ last.result = "discarded" /\ finalizing = <<>>

\* C4: isListening(guild) implies isConnected(guild) in every reachable state.
C4_ListeningImpliesConnected ==
    \A g \in Guilds : isListening(g) => isConnected(g)

\* C5: a join that has returned successfully returned a connection in the Ready state.
C5_JoinReturnsReady ==
    (last.op = "join" /\ last.result = "ok") => conn[last.guild].status = "Ready"

\* C6: a play that fails with NotConnected (no connection) or FileNotFound (no such
\* file) leaves the players, the pending plays and the connections as they were.
C6_FailedPlayChangesNothing ==
    [][\A g \in Guilds, file \in Files :
          (Play(g, file) /\ (~HasConnection(g) \/ file \notin ExistingFiles)) =>
             /\ last'.op = "play"
             /\ last'.result = IF ~HasConnection(g) THEN "NotConnected" ELSE "FileNotFound"
             /\ UNCHANGED <<players, plays, conn>>]_vars

\* C6: a play failed with FileNotFound while the guild's player was playing
C6_Witness ==
    /\ last.op = "play" /\ last.result = "FileNotFound"
    /\ players[last.guild].status = "Playing"

\* C7: a status that follows a successful join(guild, channel) reports connected
\* with that channel, and a status that follows leave(guild) reports not connected
\* and no channel.
C7_StatusAfterJoinAndLeave ==
    [][\A g \in Guilds :
          (Status(g) /\ last.guild = g) =>
             /\ (last.op = "join" /\ last.result = "ok") =>
                    (last'.connected /\ last'.channelId = last.channelId)
             /\ last.op = "leave" =>
                    (~last'.connected /\ last'.channelId = Unset)]_vars

\* C7: status reports the guild connected to the channel a second join moved it to
C7_Witness ==
    last.op = "status" /\ last.connected /\ last.channelId = "c2"

\* C8: a transcript of a guild is handed to the callback that was configured for
\* that guild, after a request made with that guild's language and API key.
C8_OwnListenerState ==
    last.op = "callback" =>
        \E o \in OptionsFor(last.guild) :
            /\ last.cb = o.onTranscription
            /\ last.language = o.language
            /\ last.key = o.openaiApiKey

\* C9: a decoder error, a stream error, a failed write, a failed transcription or a
\* failed callback of one user's utterance leaves the connection, the listening
\* registration, the other users' captures and membership and the other
\* finalizations as they were, and does not leave the user in the capture set
\* without a decoder that holds it.
C9_OthersUntouched(g, u) ==
    /\ conn' = conn
    /\ listenerOptions' = listenerOptions
    /\ pendingListens' = pendingListens
    /\ activeListeners'[g].present = activeListeners[g].present
    /\ \A h \in Guilds, v \in Users :
          (h # g \/ v # u) =>
             /\ captures'[h][v] = captures[h][v]
             /\ opus'[h][v] = opus[h][v]
             /\ (v \in activeListeners'[h].users) = (v \in activeListeners[h].users)
    /\ (activeListeners'[g].present /\ u \in activeListeners'[g].users) =>
          \E i \in DOMAIN captures'[g][u] : captures'[g][u][i].attached

C9_FailuresIsolated ==
    [][/\ \A g \in Guilds, u \in Users :
             ((\E i \in 1..MaxDecoders : DecoderError(g, u, i)) \/ OpusError(g, u)) =>
                 (C9_OthersUntouched(g, u) /\ finalizing' = finalizing)
       /\ \A i \in DOMAIN finalizing :
             (\/ PaWriteFails(i)
              \/ PaReadFails(i)
              \/ \E r \in Responses : ~r.ok /\ PaResponse(i, r)
              \/ PaCallbackDone(i, FALSE)) =>
                 /\ C9_OthersUntouched(finalizing[i].guild, finalizing[i].user)
                 /\ captures' = captures /\ activeListeners' = activeListeners
                 /\ \A j \in DOMAIN finalizing \ {i} :
                       \E k \in DOMAIN finalizing' : finalizing'[k] = finalizing[j]]_vars

\* C9: a decoder or a stream of one user failed while another user is Capturing
C9_Witness ==
    /\ last.op \in {"decoderError", "opusError"}
    /\ \E v \in Users \ {last.user} :
          /\ v \in activeListeners[last.guild].users
          /\ captures[last.guild][v] # <<>>

\* C10: stopListening removes the guild's capture set and leaves the processAudio
\* calls in flight and the listener options as they were; a call in flight ends
\* only by its own unlink or failed write, and a transcript that passes the
\* filters is handed to the callback.
C10_StopDoesNotInterrupt ==
    [][/\ \A g \in Guilds :
             StopListening(g) =>
                 /\ activeListeners'[g] = NoSet
                 /\ finalizing' = finalizing
                 /\ listenerOptions' = listenerOptions
       /\ Len(finalizing') < Len(finalizing) =>
             \E i \in DOMAIN finalizing :
                 PaWriteFails(i) \/ \E ok \in BOOLEAN : PaUnlink(i, ok)
       /\ \A i \in DOMAIN finalizing, r \in Responses :
             (r.ok /\ ~LowConfidence(r) /\ r.text.len >= 3 /\ ~r.text.pattern
                  /\ PaResponse(i, r)) =>
                 /\ last'.op = "callback"
                 /\ last'.guild = finalizing[i].guild
                 /\ last'.user = finalizing[i].user]_vars

\* C10: stopListening has run while a processAudio call of the guild is in flight
C10_Witness ==
    /\ last.op = "stopListening"
    /\ \E i \in DOMAIN finalizing : finalizing[i].guild = last.guild

\* C11: the play calls of a guild settle only in a step that leaves the guild's
\* player idle with no resource; they reject when the player reports an error and
\* resolve when it goes idle; while the player holds a resource the call that
\* gave it is still waiting.
C11_PlaySettlesAtIdle ==
    [][\A g \in Guilds :
          /\ (\E file \in Files : PlayStart(g, file)) =>
                 (Len(plays'[g]) = Len(plays[g]) + 1 /\ last'.result = "pending")
          /\ (plays'[g] # plays[g] /\ ~(\E file \in Files : PlayStart(g, file))) =>
                 /\ plays'[g] = <<>>
                 /\ players'[g].status = "Idle"
                 /\ players'[g].resource = Unset
          /\ PlayerError(g) => (last'.op = "played" /\ last'.result = "error")
          /\ PlayerIdle(g) => (last'.op = "played" /\ last'.result = "ok")
          /\ players'[g].status # "Idle" =>
                 /\ plays'[g] # <<>>
                 /\ plays'[g][Len(plays'[g])] = players'[g].resource]_vars

\* C11: the player reported an error and the waiting play calls were rejected
C11_Witness ==
    /\ last.op = "played" /\ last.result = "error"
    /\ players[last.guild].status = "Idle"
    /\ plays[last.guild] = <<>>

\* C12: a play issued while the player is busy makes its file the player's
\* resource at once; the player's resource is only ever the file of the play
\* that was just issued; when the resource finishes the player is idle with no
\* resource and no call waiting.
C12_LatestWins ==
    [][\A g \in Guilds :
          /\ \A file \in ExistingFiles :
                 (PlayStart(g, file) /\ players[g].status # "Idle") =>
                     (players'[g].resource = file /\ players'[g].status # "Idle")
          /\ (players'[g].resource # players[g].resource
                  /\ players'[g].resource # Unset) =>
                 \E file \in ExistingFiles :
                     PlayStart(g, file) /\ players'[g].resource = file
          /\ PlayerIdle(g) =>
                 /\ players'[g].status = "Idle"
                 /\ players'[g].resource = Unset
                 /\ plays'[g] = <<>>]_vars

\* C12: a second play has replaced the resource of a play that is still waiting
C12_Witness ==
    \E g \in Guilds :
        /\ plays[g] = <<"a.mp3", "b.mp3">>
        /\ players[g].resource = "b.mp3"
        /\ players[g].status = "Playing"

\* C13: once the WAV file of a processAudio call is written, the call ends only
\* through the unlink of that file: a failed read, an error answer, a dropped
\* transcript and a callback that resolves or rejects all lead to the unlink, and
\* the call then settles as its try block did whether or not the unlink failed.
C13_TempFileAlwaysUnlinked ==
    [][\A i \in DOMAIN finalizing :
          /\ (\/ PaReadFails(i)
              \/ \E r \in Responses : ~Delivers(r) /\ PaResponse(i, r)
              \/ \E ok \in BOOLEAN : PaCallbackDone(i, ok)) =>
                 (Len(finalizing') = Len(finalizing) /\ finalizing'[i].pc = "unlink")
          /\ (HasTempFile(finalizing[i]) /\ finalizing[i].pc # "unlink") =>
                 \E k \in DOMAIN finalizing' :
                     /\ finalizing'[k].user = finalizing[i].user
                     /\ finalizing'[k].guild = finalizing[i].guild
                     /\ HasTempFile(finalizing'[k])
          /\ \A ok \in BOOLEAN :
                 PaUnlink(i, ok) =>
                     /\ HasTempFile(finalizing[i])
                     /\ last'.op = "processAudio"
                     /\ last'.result = IF finalizing[i].failed THEN "failed" ELSE "ok"]_vars

\* C13: a processAudio call whose transcription or callback failed has unlinked
\* its file and ended
C13_Witness ==
    last.op = "processAudio" /\ last.result = "failed" /\ finalizing = <<>>

\* the mean of the segments' no_speech_prob, given in tenths, is above 0.5
C14_MeanAboveHalf(segments) ==
    Len(segments) > 0 /\ 2 * SumSeq(segments) > 10 * Len(segments)

\* C14: an answer whose mean no_speech_prob is above 0.5 (0.6) is dropped without
\* a callback; one whose mean is not above 0.5 (0.2, 0.5, segments 0.8 and 0.1, no
\* segments) and whose text is not noise is handed to the callback, trimmed; the
\* callback of a call is entered once, from the answer.
C14_LowConfidenceSuppressed ==
    [][/\ \A i \in DOMAIN finalizing, r \in Responses :
             (r.ok /\ PaResponse(i, r)) =>
                 /\ C14_MeanAboveHalf(r.segments) =>
                        /\ last'.op = "transcribed" /\ last'.result = "filtered"
                        /\ finalizing'[i].pc = "unlink"
                 /\ (~C14_MeanAboveHalf(r.segments) /\ r.text.len >= 3 /\ ~r.text.pattern) =>
                        /\ last'.op = "callback"
                        /\ last'.text = [r.text EXCEPT !.padded = FALSE]
                        /\ finalizing'[i].pc = "callback"
       /\ \A i \in DOMAIN finalizing' :
             (finalizing'[i].pc = "callback" /\ last'.op = "callback") =>
                 \E k \in DOMAIN finalizing : finalizing[k].pc = "fetch"
       /\ last'.op = "callback" =>
             \E i \in DOMAIN finalizing, r \in Responses :
                 PaResponse(i, r) /\ ~C14_MeanAboveHalf(r.segments)]_vars

\* C14: a transcript that came with blanks around it and a mean of 0.2 was handed
\* to the callback trimmed
C14_Witness ==
    /\ last.op = "callback"
    /\ last.text = [len |-> 5, pattern |-> FALSE, padded |-> FALSE]
    /\ \E i \in DOMAIN finalizing : finalizing[i].pc = "callback"

\* the parameters the action requires are not all given
C15_MissingParams(p) ==
    \/ (p.action \in {"join", "play", "tts"} /\ (~p.guildId \/ ~p.arg))
    \/ (p.action \in {"stop", "leave", "listen", "stop-listen"} /\ ~p.guildId)

\* C15, as claimed: every action returns and does not throw, and a missing
\* required parameter yields details.error = missing_params with no manager
\* operation invoked.
C15_MissingParamsAlways ==
    (last.op = "command" /\ last.params.action \in Actions) =>
        /\ ~last.result.threw
        /\ C15_MissingParams(last.params) =>
              (last.result.error = "missing_params" /\ last.result.called = <<>>)

\* C15, amended: every action returns and does not throw; without a bot token
\* the result is missing_token whatever the parameters; with a token a missing
\* required parameter yields missing_params with no manager operation invoked,
\* and what a manager operation throws yields details.error = its message.
C15_StructuredResults ==
    (last.op = "command" /\ last.params.action \in Actions) =>
        /\ ~last.result.threw
        /\ ~last.params.token =>
              (last.result.error = "missing_token" /\ last.result.called = <<>>)
        /\ (last.params.token /\ C15_MissingParams(last.params)) =>
              (last.result.error = "missing_params" /\ last.result.called = <<>>)
        /\ (last.params.token /\ ~C15_MissingParams(last.params)
                /\ last.params.throws = "manager"
                /\ last.params.action \in {"join", "play", "stop", "leave", "stop-listen"}) =>
              last.result.error = "message"

\* C15: a play with its parameters given returned the error of the manager's play
C15_Witness ==
    /\ last.op = "command" /\ last.params.action = "play"
    /\ last.params.token /\ last.params.guildId /\ last.params.arg
    /\ last.result = [error |-> "message", threw |-> FALSE, called |-> <<"play">>]

\* C16: once destroy has completed no guild is connected, whether or not
\* anything was played in it.
C16_DestroyDisconnectsAll ==
    last.op = "destroy" => \A g \in Guilds : ~isConnected(g)

\* C17: getActiveVoiceGuildIds is exactly the set of the connected guilds.
C17_ActiveGuildsAreConnectedGuilds ==
    getActiveVoiceGuildIds = {g \in Guilds : isConnected(g)}

\* C18: a join of a guild that has a live connection, one that a concurrent join
\* is still establishing included, moves that connection to the channel and
\* returns it: the connection keeps its speaking handler and a Ready one stays
\* Ready, no join starts to wait for a new connection, and none is abandoned; a
\* join starts to wait for a connection only when the guild has none.
C18_RejoinPreferred ==
    [][\A g \in Guilds :
          /\ \A ch \in VoiceChannels(g) :
                 (Join(g, ch) /\ HasConnection(g)) =>
                     /\ conn'[g].channelId = ch
                     /\ conn'[g].hook = conn[g].hook
                     /\ conn[g].status = "Ready" => conn'[g].status = "Ready"
                     /\ conn'[g].status # "None"
                     /\ joining' = joining
                     /\ staleJoins' = staleJoins
                     /\ last'.op = "join" /\ last'.result = "ok"
          /\ (joining'[g] # Unset /\ joining'[g] # joining[g]) => ~HasConnection(g)]_vars

\* C18: a join has rejoined the connection that an earlier join is still
\* establishing
C18_Witness ==
    /\ last.op = "join" /\ last.result = "ok"
    /\ joining[last.guild] # Unset
    /\ conn[last.guild].status = "Signalling"
    /\ conn[last.guild].channelId = "c2"

\* C19: a guild's player comes to exist only by a play that passes its checks,
\* ceases to exist only by leave (destroy leaves for every guild with a player),
\* and a play in a guild that has a player uses that player: its subscription is
\* the one made when it was created; stop keeps the player.
C19_PlayerReused ==
    [][\A g \in Guilds :
          /\ (~players[g].exists /\ players'[g].exists) =>
                 \E file \in ExistingFiles : PlayStart(g, file)
          /\ (players[g].exists /\ ~players'[g].exists) =>
                 (Leave(g) \/ \E torn \in BOOLEAN : Destroy(torn))
          /\ \A file \in Files :
                 (Play(g, file) /\ players[g].exists) =>
                     /\ players'[g].exists
                     /\ players'[g].subscribed = players[g].subscribed
          /\ Stop(g) => players'[g].exists = players[g].exists]_vars

\* C19: a play has used the player that an earlier play created, after the
\* connection that player was subscribed to was destroyed and the guild joined again
C19_Witness ==
    \E g \in Guilds :
        /\ players[g].exists /\ ~players[g].subscribed
        /\ HasConnection(g)
        /\ plays[g] # <<>> /\ last.op = "play"

\* the 32-bit and the 16-bit little-endian fields a WAV reader finds at an offset
C20_U32At(w, off) ==
    w[off + 1] + 256 * w[off + 2] + 65536 * w[off + 3] + 16777216 * w[off + 4]

C20_U16At(w, off) == w[off + 1] + 256 * w[off + 2]

\* C20: the output of pcmToWav is 44 header bytes followed by the input bytes;
\* read back, the data size field is n, the RIFF size field is 36 + n, and the
\* channels, sample rate and bits per sample fields are c, r and b, with byte
\* rate r*c*b/8 and block align c*b/8.
C20_WavHeader ==
    last.op = "pcmToWav" =>
        LET w == last.wav
            n == Len(last.pcm)
        IN /\ Len(w) = 44 + n
           /\ SubSeq(w, 45, 44 + n) = last.pcm
           /\ SubSeq(w, 1, 4) = <<82, 73, 70, 70>>
           /\ C20_U32At(w, 4) = 36 + n
           /\ C20_U32At(w, 40) = n
           /\ C20_U16At(w, 22) = last.channels
           /\ C20_U32At(w, 24) = last.sampleRate
           /\ C20_U16At(w, 34) = last.bitsPerSample
           /\ 8 * C20_U32At(w, 28) = last.sampleRate * last.channels * last.bitsPerSample
           /\ 8 * C20_U16At(w, 32) = last.channels * last.bitsPerSample

\* C20: three bytes of 48 kHz stereo 16-bit PCM were encoded
C20_Witness ==
    /\ last.op = "pcmToWav"
    /\ Len(last.pcm) = 3
    /\ last.sampleRate = 48000 /\ last.channels = 2 /\ last.bitsPerSample = 16
    /\ Len(last.wav) = 47

\* C21: whenever a guild has a registered player and a live connection, the
\* player is subscribed to the guild's current connection, so a started
\* resource is sent to the connection getVoiceConnection returns and never to
\* a destroyed earlier one.
C21_PlayerSubscribedToCurrent ==
    \A g \in Guilds :
        (players[g].exists /\ HasConnection(g)) => players[g].subscribed

\* C22: after stopListening(guild), and until the next startListening for the
\* guild, listening stays off: the step that follows a stopListening leaves
\* isListening(guild) false and starts no capture in the guild.
C22_StaysOffAfterStop ==
    [][\A g \in Guilds :
          (last.op = "stopListening" /\ last.guild = g)
              => /\ ~isListening(g)'
                 /\ \A u \in Users :
                        Len(captures'[g][u]) <= Len(captures[g][u])]_vars

\* C23: once a listen command (or the listening a join starts) has returned
\* with listening=true for a guild, the guild is reported as listening whether
\* or not any user has produced a speaking-start signal yet: at the moment
\* startListening has returned, isListening(guild) is true.
C23_ListeningOnceListenReturns ==
    \A g \in Guilds :
        (last.op = "listen" /\ last.guild = g /\ last.listening)
            => isListening(g)

\* C24: every play call that started a resource eventually settles under fair
\* delivery of the player's events, whatever stop, leave, further plays, join
\* failures or connection destruction come in between: a guild with pending
\* play calls eventually has none.
C24_EveryPlaySettles ==
    \A g \in Guilds : (plays[g] # <<>>) ~> (plays[g] = <<>>)

\* C25: the commands that are queries or teardown (status, stop, leave) and
\* those that need a prior join (play) never create the module's VoiceManager:
\* issued while no manager exists, they leave the singleton unset.
C25_QueriesCreateNoManager ==
    [][(voiceManager = "unset" /\ last'.op \in {"status", "stop", "leave", "play"})
          => voiceManager' = "unset"]_vars

\* C26: a failed initialization is retryable: when a join command has failed
\* because the client's login failed, the singleton is not left bound to the
\* failed manager, so a later join can log in again.
C26_FailedInitReleased ==
    (last.op = "join" /\ last.result = "LoginError") => voiceManager # "failed"

\* C27: the leave command for guild a leaves the active voice guild unchanged
\* when that is a different guild b which is still connected.
C27_LeaveKeepsOtherActiveGuild ==
    [][\A a, b \in Guilds :
          (/\ a # b
           /\ activeVoiceGuildId = b
           /\ isConnected(b)
           /\ last'.op = "leave" /\ last'.guild = a)
              => activeVoiceGuildId' = b]_vars

====
